---- MODULE Spec2Model ----
(***************************************************************************)
(* A model of lil_researcher: the viewport browser (src/tools/browser.py), *)
(* and the research pipeline (src/agents/research.py, agents/browser.py).  *)
(*                                                                         *)
(* Text is a sequence of one-character strings.  A document is a sequence  *)
(* of block elements [h |-> pixel height, text |-> its own text], laid out *)
(* top to bottom.  Python's None and the two sentinel strings are the      *)
(* one-token sequences None, END_OF_PAGE and TOP_OF_PAGE, which no page    *)
(* text can equal.                                                         *)
(***************************************************************************)
EXTENDS Integers, Sequences, FiniteSets, TLC

VARIABLES
    page,                       \* Browser.page: "None" or "open"
    doc,                        \* the document loaded in the page
    scrollY,                    \* window.scrollY of the page
    current_viewport_content,   \* Browser._current_viewport_content
    last_search_position,       \* Browser._last_search_position
    last_search_index,          \* Browser._last_search_index
    found_positions,            \* Browser._found_positions
    has_found_positions,        \* hasattr(self, "_found_positions")
    domain_whitelist,           \* Browser.domain_whitelist, a set of hosts
    navigated,                  \* whether ask_question's navigate call was made
    calls,                      \* the number of tool calls made on the session
    last,                       \* history: the last Browser call and its result
    roundTrip,                  \* history: a page_down followed by a page_up
    nextRun,                    \* history: the find_text_next calls since navigate
    rpc,                        \* where research() is: the call it awaits, or its outcome
    queries,                    \* research: queries = result.data
    qi,                         \* research: index of the query being searched
    urls,                       \* research: the urls list
    questions,                  \* research: questions.data
    ui,                         \* research: index of the URL being analysed
    qj,                         \* research: index of the question being asked
    answerKeys,                 \* research: answers.keys(), in insertion order
    answers,                    \* research: the answers dict
    final_answer,               \* research: final_answer
    error,                      \* the call whose exception left research()
    foldLog,                    \* history: the summarize_agent.run calls that returned
    navOk,                      \* history: URLs some navigation of which succeeded
    askLog,                     \* history: the ask_question calls, in order
    askBefore,                  \* history: the answers dict before the last ask_question
    open_sessions,              \* Browser sessions started and not closed
    validated,                  \* history: the last list-validator call and its verdict
    job_status,                 \* ResearchJob.status
    job_result,                 \* ResearchJob.result
    job_error,                  \* ResearchJob.error
    jobs,                       \* ResearchJobQueue.jobs: job id -> ResearchJob
    tasks,                      \* the process_research_job tasks, in creation order
    writers,                    \* history: job id -> the tasks that wrote its entry
    scan                        \* a find_text call in progress: where its loop is

bvars == <<page, doc, scrollY, current_viewport_content, last_search_position,
           last_search_index, found_positions, has_found_positions, domain_whitelist,
           navigated, calls, last, roundTrip, nextRun>>

rvars == <<rpc, queries, qi, urls, questions, ui, qj, answerKeys, answers,
           final_answer, error, foldLog, navOk, askLog, askBefore, open_sessions,
           validated, job_status, job_result, job_error>>

jvars == <<jobs, tasks, writers>>

svars == <<scan>>

vars == <<bvars, rvars, jvars, svars>>

-----------------------------------------------------------------------------
(* Bounds and program constants *)

\* the longest document, in block elements
MaxElems == 2

\* the most tool calls the agent makes on one session
MaxCalls == 3

ViewportHeight == 768

DupTolerance == 50

ElemHeights == {768, 300}

ElemTexts == {<<"A">>, <<"b">>}

Needles == {<<"a">>, <<"a", " ", "a">>}

Elems == [h : ElemHeights, text : ElemTexts]

RECURSIVE SeqsUpTo(_)
SeqsUpTo(n) ==
    IF n = 0 THEN {<<>>}
    ELSE LET shorter == SeqsUpTo(n - 1)
         IN  shorter \cup {Append(s, e) : s \in {t \in shorter : Len(t) = n - 1}, e \in Elems}

Docs == SeqsUpTo(MaxElems) \ {<<>>}

None == <<"None">>

END_OF_PAGE == <<"END OF PAGE REACHED">>

TOP_OF_PAGE == <<"TOP OF PAGE REACHED">>

Max(a, b) == IF a > b THEN a ELSE b

Min(a, b) == IF a < b THEN a ELSE b

Abs(a) == IF a < 0 THEN 0 - a ELSE a

-----------------------------------------------------------------------------
(* The engine: layout, scrolling and visible text *)

RECURSIVE SumHeights(_, _)
SumHeights(d, n) == IF n = 0 THEN 0 ELSE d[n].h + SumHeights(d, n - 1)

ElemTop(d, i) == SumHeights(d, i - 1)

ElemBottom(d, i) == SumHeights(d, i)

\* Math.max(body.scrollHeight, documentElement.scrollHeight): the root's
\* scrollHeight is never less than its clientHeight.
ScrollHeight(d) == Max(SumHeights(d, Len(d)), ViewportHeight)

\* mutant of MaxScroll: the scroll range ends at the document height
MaxScrollWholeDocument(d) == ScrollHeight(d)

MaxScroll(d) == ScrollHeight(d) - ViewportHeight

\* window.scrollBy(0, delta): the engine clamps the offset to the scroll range.
ScrollBy(d, y, delta) == Max(0, Min(y + delta, MaxScroll(d)))

\* rect.bottom > 0 and rect.top < viewportHeight, in viewport coordinates
InViewport(d, y, i) == ElemBottom(d, i) - y > 0 /\ ElemTop(d, i) - y < ViewportHeight

RECURSIVE JoinVisible(_, _, _)
JoinVisible(d, y, i) ==
    IF i > Len(d) THEN <<>>
    ELSE LET rest == JoinVisible(d, y, i + 1)
         IN  IF ~InViewport(d, y, i) THEN rest
             ELSE IF rest = <<>> THEN d[i].text
             ELSE d[i].text \o <<" ">> \o rest

\* get_viewport_content: the texts of the elements in the viewport, joined by ' '
ViewportContent(d, y) == JoinVisible(d, y, 1)

LowerChar(c) == IF c = "A" THEN "a" ELSE c

\* str.lower()
Lower(s) == [i \in 1..Len(s) |-> LowerChar(s[i])]

MatchAt(s, sub, i) ==
    /\ i + Len(sub) <= Len(s)
    /\ \A k \in 1..Len(sub) : s[i + k] = sub[k]

\* str.find(sub, start): 0-based index of the first match at or after start, else -1
Find(s, sub, start) ==
    LET hits == {i \in start..Len(s) : MatchAt(s, sub, i)}
    IN  IF hits = {} THEN 0 - 1
        ELSE CHOOSE i \in hits : \A j \in hits : i <= j

\* sub.lower() in s.lower()
Contains(s, sub) == Find(Lower(s), Lower(sub), 0) >= 0

-----------------------------------------------------------------------------
(* Browser.page_down and Browser.page_up as functions of the scroll state.  *)
(* f is where the engine raises: "none", "before" the scroll (the           *)
(* can_scroll or clientHeight evaluate) or "after" it (the text extraction  *)
(* of get_viewport_content).  The result is the new offset y, the returned  *)
(* value ret and whether the except branch was taken.                       *)

Faults == {"none", "before", "after"}

\* mutant of CanScrollDown: the comparison off by one
CanScrollDownInclusive(d, y) == y + ViewportHeight <= ScrollHeight(d)

CanScrollDown(d, y) == y + ViewportHeight < ScrollHeight(d)

CanScrollUp(d, y) == y > 0

PageDown(d, y, f) ==
    IF f = "before" THEN [y |-> y, ret |-> <<>>, raised |-> TRUE]
    ELSE IF ~CanScrollDown(d, y) THEN [y |-> y, ret |-> END_OF_PAGE, raised |-> FALSE]
    ELSE LET y2 == ScrollBy(d, y, ViewportHeight)
         IN  IF f = "after" THEN [y |-> y2, ret |-> <<>>, raised |-> TRUE]
             ELSE [y |-> y2, ret |-> ViewportContent(d, y2), raised |-> FALSE]

PageUp(d, y, f) ==
    IF f = "before" THEN [y |-> y, ret |-> <<>>, raised |-> TRUE]
    ELSE IF ~CanScrollUp(d, y) THEN [y |-> y, ret |-> TOP_OF_PAGE, raised |-> FALSE]
    ELSE LET y2 == ScrollBy(d, y, 0 - ViewportHeight)
         IN  IF f = "after" THEN [y |-> y2, ret |-> <<>>, raised |-> TRUE]
             ELSE [y |-> y2, ret |-> ViewportContent(d, y2), raised |-> FALSE]

-----------------------------------------------------------------------------
(* Browser.find_text *)

\* the while True loop of find_text, entered at offset y
RECURSIVE FindTextScan(_, _, _)
FindTextScan(d, y, needle) ==
    LET content == ViewportContent(d, y)
    IN  IF Contains(content, needle) THEN [y |-> y, ret |-> content, raised |-> FALSE]
        ELSE LET down == PageDown(d, y, "none")
             IN  IF down.ret = END_OF_PAGE THEN [y |-> y, ret |-> None, raised |-> FALSE]
                 ELSE FindTextScan(d, down.y, needle)

\* mutant of FindText: the scan without window.scrollTo(0, 0)
FindTextFromHere(d, y, needle, f) ==
    IF f = "before" THEN [y |-> y, ret |-> None, raised |-> TRUE]
    ELSE IF f = "after" /\ ~Contains(ViewportContent(d, y), needle)
    THEN [y |-> y, ret |-> None, raised |-> TRUE]
    ELSE FindTextScan(d, y, needle)

\* f = "before": the first get_viewport_content raises; f = "after": the
\* extraction that follows window.scrollTo(0, 0) raises
FindText(d, y, needle, f) ==
    IF f = "before" THEN [y |-> y, ret |-> None, raised |-> TRUE]
    ELSE LET content == ViewportContent(d, y)
         IN  IF Contains(content, needle) THEN [y |-> y, ret |-> content, raised |-> FALSE]
             ELSE IF f = "after" THEN [y |-> 0, ret |-> None, raised |-> TRUE]
             ELSE FindTextScan(d, 0, needle)

-----------------------------------------------------------------------------
(* Browser.find_text_next.  A cursor is the record                          *)
(* [content, pos, idx, found, has] of _current_viewport_content,            *)
(* _last_search_position, _last_search_index, _found_positions and whether  *)
(* the attribute _found_positions exists.                                   *)

\* int(viewport_height * 0.5)
ScrollStep == ViewportHeight \div 2

\* mutant of IsDuplicate: only an equal position counts as seen
IsDuplicateExact(absolute_pos, found) == absolute_pos \in found

IsDuplicate(absolute_pos, found) ==
    \E pos \in found : Abs(absolute_pos - pos) < DupTolerance

\* the inner "while not found_unique_match" loop: the next match after pos
\* that is no duplicate, or hit = FALSE when the snapshot is exhausted
RECURSIVE NextUnique(_, _, _, _, _, _)
NextUnique(content_lower, needle_lower, pos, scroll_y, found, skipped) ==
    LET next_pos == Find(content_lower, needle_lower, pos + 1)
    IN  IF next_pos = 0 - 1
        THEN [hit |-> FALSE, pos |-> pos, abs |-> 0, skipped |-> skipped]
        ELSE IF ~IsDuplicate(scroll_y + next_pos, found)
        THEN [hit |-> TRUE, pos |-> next_pos, abs |-> scroll_y + next_pos,
              skipped |-> skipped]
        ELSE NextUnique(content_lower, needle_lower, next_pos, scroll_y, found, TRUE)

\* mutant of ResetCursor: the set of seen positions survives the reset
ResetCursorKeepSeen(has) ==
    [content |-> <<>>, pos |-> 0, idx |-> 0, found |-> found_positions, has |-> has]

ResetCursor(has) == [content |-> <<>>, pos |-> 0, idx |-> 0, found |-> {}, has |-> has]

\* the outer while True loop of find_text_next; f = "after": the
\* get_viewport_content that follows the first scroll raises
RECURSIVE FindNextLoop(_, _, _, _, _, _)
FindNextLoop(d, y, c, needle, skipped, f) ==
    LET m == NextUnique(Lower(c.content), Lower(needle), c.pos, y, c.found, skipped)
    IN  IF m.hit
        THEN [y |-> y, ret |-> c.content, skipped |-> m.skipped, raised |-> FALSE,
              cur |-> [content |-> c.content, pos |-> m.pos, idx |-> c.idx + 1,
                       found |-> c.found \cup {m.abs}, has |-> TRUE]]
        ELSE LET y2 == ScrollBy(d, y, ScrollStep)
             IN  IF y2 = y
                 THEN [y |-> y, ret |-> END_OF_PAGE, skipped |-> m.skipped,
                       raised |-> FALSE, cur |-> ResetCursor(TRUE)]
                 ELSE IF f = "after"
                 THEN [y |-> y2, ret |-> None, skipped |-> m.skipped,
                       raised |-> TRUE, cur |-> ResetCursor(TRUE)]
                 ELSE FindNextLoop(d, y2,
                                   [c EXCEPT !.content = ViewportContent(d, y2),
                                             !.pos = 0 - 1],
                                   needle, m.skipped, f)

\* f = "before": the first engine call of the try block raises
FindTextNext(d, y, c, needle, f) ==
    IF f = "before"
    THEN [y |-> y, ret |-> None, skipped |-> FALSE, raised |-> TRUE,
          cur |-> ResetCursor(TRUE)]
    ELSE LET c1 == [c EXCEPT !.has = TRUE, !.found = IF c.has THEN c.found ELSE {}]
             c2 == IF c1.content = <<>>
                   THEN [c1 EXCEPT !.content = ViewportContent(d, y),
                                   !.pos = 0 - 1, !.idx = 0]
                   ELSE c1
         IN  FindNextLoop(d, y, c2, needle, FALSE, f)

-----------------------------------------------------------------------------
(* The Browser session as a state machine: the calls BrowserAgent makes on  *)
(* one Browser (start and navigate once in ask_question, then the tools).   *)

False == <<"False">>

True == <<"True">>

Raised == <<"raised">>

\* A host is its sequence of labels; a URL is [host, port], port "" when the
\* URL names none.
ExampleCom == <<"example", "com">>

EvilExampleCom == <<"evil", "example", "com">>

ExampleOrg == <<"example", "org">>

Hosts == {ExampleCom, EvilExampleCom, ExampleOrg}

PageUrls == [host : Hosts, port : {""}] \cup {[host |-> ExampleCom, port |-> "8080"]}

NoUrl == [host |-> <<>>, port |-> ""]

\* Browser(domain_whitelist=...): None or [] allows every domain
Whitelists == {{}, {ExampleCom}}

\* urlparse(url).netloc: the host, with ":port" when the URL names a port
Netloc(url) == IF url.port = "" THEN url.host ELSE url.host \o <<":", url.port>>

\* mutant of IsDomainAllowed: a subdomain of a listed domain is allowed too
IsDomainAllowedSuffix(whitelist, url) ==
    \/ whitelist = {}
    \/ \E w \in whitelist :
          /\ Len(Netloc(url)) >= Len(w)
          /\ SubSeq(Netloc(url), Len(Netloc(url)) - Len(w) + 1, Len(Netloc(url))) = w

\* Browser.__is_domain_allowed
IsDomainAllowed(whitelist, url) ==
    \/ whitelist = {}
    \/ Netloc(url) \in whitelist

\* mutant of NoPage: the scroll operations answer with their sentinel
NoPageSentinel(op) ==
    IF op = "page_down" THEN END_OF_PAGE
    ELSE IF op = "page_up" THEN TOP_OF_PAGE
    ELSE IF op = "get_viewport_content" THEN <<>>
    ELSE IF op = "navigate" THEN False
    ELSE None

\* what each operation returns when self.page is None
NoPage(op) ==
    IF op \in {"page_down", "page_up", "get_viewport_content"} THEN <<>>
    ELSE IF op = "navigate" THEN False
    ELSE None

Cursor == [content |-> current_viewport_content, pos |-> last_search_position,
           idx |-> last_search_index, found |-> found_positions,
           has |-> has_found_positions]

SetCursor(c) ==
    /\ current_viewport_content' = c.content
    /\ last_search_position' = c.pos
    /\ last_search_index' = c.idx
    /\ found_positions' = c.found
    /\ has_found_positions' = c.has

cursorVars == <<current_viewport_content, last_search_position, last_search_index,
                found_positions, has_found_positions>>

\* the record of a call: the offset before it, what it returned, whether the
\* engine raised in it, whether find_text_next skipped a duplicate in it and,
\* for navigate, the URL and whether page.goto was called; fresh: the call
\* began with no cached snapshot; reported: the absolute positions that
\* find_text_next has reported on the session; again: the call reported one
\* of them once more
Call(op, needle, ret, raised, skipped) ==
    [op |-> op, needle |-> needle, preY |-> scrollY, ret |-> ret,
     raised |-> raised, skipped |-> skipped, url |-> NoUrl, goto |-> FALSE,
     fresh |-> current_viewport_content = <<>>, again |-> FALSE,
     reported |-> last.reported]

NoTrip == [state |-> "none", y0 |-> 0]

NoRun == [pure |-> FALSE, needle |-> <<>>, windows |-> 0, ended |-> FALSE]

\* Browser.__init__
BrowserInit ==
    /\ page = "None"
    /\ doc = <<>>
    /\ scrollY = 0
    /\ current_viewport_content = <<>>
    /\ last_search_position = 0
    /\ last_search_index = 0
    /\ found_positions = {}
    /\ has_found_positions = FALSE
    /\ navigated = FALSE
    /\ calls = 0
    /\ domain_whitelist \in Whitelists
    /\ last = [op |-> "init", needle |-> <<>>, preY |-> 0, ret |-> <<>>,
               raised |-> FALSE, skipped |-> FALSE, url |-> NoUrl, goto |-> FALSE,
               fresh |-> TRUE, again |-> FALSE, reported |-> {}]
    /\ roundTrip = NoTrip
    /\ nextRun = NoRun

\* Browser.start: a new page, showing the empty document
start ==
    /\ UNCHANGED calls
    /\ page = "None"
    /\ page' = "open"
    /\ last' = Call("start", <<>>, <<>>, FALSE, FALSE)
    /\ roundTrip' = NoTrip
    /\ nextRun' = NoRun
    /\ UNCHANGED <<doc, scrollY, cursorVars, navigated, domain_whitelist>>
    /\ UNCHANGED <<rvars, jvars, svars>>

\* Browser.navigate: refused without page.goto when the domain is not
\* allowed; else page.goto loads document d, or raises when ok is FALSE
navigate(url, d, ok) ==
    /\ UNCHANGED calls
    /\ ~navigated
    /\ navigated' = TRUE
    /\ roundTrip' = NoTrip
    /\ IF page = "None"
       THEN /\ last' = [Call("navigate", <<>>, NoPage("navigate"), FALSE, FALSE)
                           EXCEPT !.url = url]
            /\ nextRun' = NoRun
            /\ UNCHANGED <<page, doc, scrollY, cursorVars>>
       ELSE IF ~IsDomainAllowed(domain_whitelist, url)
       THEN /\ last' = [Call("navigate", <<>>, False, FALSE, FALSE)
                           EXCEPT !.url = url]
            /\ nextRun' = NoRun
            /\ UNCHANGED <<page, doc, scrollY, cursorVars>>
       ELSE IF ~ok
       THEN /\ last' = [Call("navigate", <<>>, False, TRUE, FALSE)
                           EXCEPT !.url = url, !.goto = TRUE]
            /\ nextRun' = NoRun
            /\ UNCHANGED <<page, doc, scrollY, cursorVars>>
       ELSE /\ doc' = d
            /\ scrollY' = 0
            /\ last' = [Call("navigate", <<>>, True, FALSE, FALSE)
                           EXCEPT !.url = url, !.goto = TRUE]
            /\ nextRun' = [NoRun EXCEPT !.pure = (Cursor = ResetCursor(FALSE))]
            /\ UNCHANGED <<page, cursorVars>>
    /\ UNCHANGED domain_whitelist
    /\ UNCHANGED <<rvars, jvars, svars>>

page_down(f) ==
    /\ calls < MaxCalls
    /\ calls' = calls + 1
    /\ IF page = "None"
       THEN /\ last' = Call("page_down", <<>>, NoPage("page_down"), FALSE, FALSE)
            /\ roundTrip' = NoTrip
            /\ UNCHANGED scrollY
       ELSE LET r == PageDown(doc, scrollY, f)
            IN  /\ scrollY' = r.y
                /\ last' = Call("page_down", <<>>, r.ret, r.raised, FALSE)
                /\ roundTrip' = IF ~r.raised /\ r.ret # END_OF_PAGE
                                THEN [state |-> "down", y0 |-> scrollY]
                                ELSE NoTrip
    /\ nextRun' = NoRun
    /\ UNCHANGED <<page, doc, cursorVars, navigated, domain_whitelist>>
    /\ UNCHANGED <<rvars, jvars, svars>>

page_up(f) ==
    /\ calls < MaxCalls
    /\ calls' = calls + 1
    /\ IF page = "None"
       THEN /\ last' = Call("page_up", <<>>, NoPage("page_up"), FALSE, FALSE)
            /\ roundTrip' = NoTrip
            /\ UNCHANGED scrollY
       ELSE LET r == PageUp(doc, scrollY, f)
            IN  /\ scrollY' = r.y
                /\ last' = Call("page_up", <<>>, r.ret, r.raised, FALSE)
                /\ roundTrip' = IF roundTrip.state = "down" /\ ~r.raised
                                THEN [roundTrip EXCEPT !.state = "back"]
                                ELSE NoTrip
    /\ nextRun' = NoRun
    /\ UNCHANGED <<page, doc, cursorVars, navigated, domain_whitelist>>
    /\ UNCHANGED <<rvars, jvars, svars>>

\* get_viewport_content has no try block: an engine fault propagates
get_viewport_content(f) ==
    /\ calls < MaxCalls
    /\ calls' = calls + 1
    /\ last' = Call("get_viewport_content", <<>>,
                    IF page = "None" THEN NoPage("get_viewport_content")
                    ELSE IF f # "none" THEN Raised
                    ELSE ViewportContent(doc, scrollY),
                    page # "None" /\ f # "none", FALSE)
    /\ roundTrip' = NoTrip
    /\ nextRun' = NoRun
    /\ UNCHANGED <<page, doc, scrollY, cursorVars, navigated, domain_whitelist>>
    /\ UNCHANGED <<rvars, jvars, svars>>

find_text(needle, f) ==
    /\ calls < MaxCalls
    /\ calls' = calls + 1
    /\ IF page = "None"
       THEN /\ last' = Call("find_text", needle, NoPage("find_text"), FALSE, FALSE)
            /\ UNCHANGED scrollY
       ELSE LET r == FindText(doc, scrollY, needle, f)
            IN  /\ scrollY' = r.y
                /\ last' = Call("find_text", needle, r.ret, r.raised, FALSE)
    /\ roundTrip' = NoTrip
    /\ nextRun' = NoRun
    /\ UNCHANGED <<page, doc, cursorVars, navigated, domain_whitelist>>
    /\ UNCHANGED <<rvars, jvars, svars>>

\* the absolute position a find_text_next call added to _found_positions
Reported(r) ==
    IF r.raised \/ r.ret = END_OF_PAGE THEN {} ELSE r.cur.found \ found_positions

find_text_next(needle, f) ==
    /\ calls < MaxCalls
    /\ calls' = calls + 1
    /\ IF page = "None"
       THEN /\ last' = Call("find_text_next", needle, NoPage("find_text_next"),
                             FALSE, FALSE)
            /\ nextRun' = NoRun
            /\ UNCHANGED <<scrollY, cursorVars>>
       ELSE LET r == FindTextNext(doc, scrollY, Cursor, needle, f)
            IN  /\ scrollY' = r.y
                /\ SetCursor(r.cur)
                /\ last' = [Call("find_text_next", needle, r.ret, r.raised, r.skipped)
                              EXCEPT !.reported = @ \cup Reported(r),
                                     !.again = Reported(r) \cap last.reported # {}]
                /\ nextRun' =
                      IF /\ nextRun.pure
                         /\ ~nextRun.ended
                         /\ ~r.raised
                         /\ nextRun.needle \in {<<>>, needle}
                      THEN [pure |-> TRUE, needle |-> needle,
                            windows |-> nextRun.windows
                                          + (IF r.ret = END_OF_PAGE THEN 0 ELSE 1),
                            ended |-> (r.ret = END_OF_PAGE)]
                      ELSE NoRun
    /\ roundTrip' = NoTrip
    /\ UNCHANGED <<page, doc, navigated, domain_whitelist>>
    /\ UNCHANGED <<rvars, jvars, svars>>

BrowserNext ==
    \/ start
    \/ \E u \in PageUrls, d \in Docs, ok \in BOOLEAN : navigate(u, d, ok)
    \/ \E f \in Faults : page_down(f)
    \/ \E f \in Faults : page_up(f)
    \/ \E f \in {"none", "before"} : get_viewport_content(f)
    \/ \E n \in Needles, f \in Faults : find_text(n, f)
    \/ \E n \in Needles, f \in Faults : find_text_next(n, f)

-----------------------------------------------------------------------------
(* ResearchAgent.  Model output is a sequence of tokens; an Agent.run call  *)
(* either returns a result its result_validator accepts or raises.          *)

max_queries_per_question == 3

max_questions_per_url == 3

Urls == {"u1", "u2"}

RawQueryLists == {<<"q1", "q2">>, <<"q1", "q2", "q3">>}

RawQuestionLists == {<<"k1", "k2", "k3">>, <<"k1", "k2", "k3", "k4">>}

\* the token that stands for the seven characters of a json code fence
JsonFence == "[fence]json"

\* the token that stands for a code fence opened with another language tag
OtherFence == "[fence]python"

RawTexts == {<<>>, <<JsonFence, "{}">>, <<OtherFence, "x">>, <<"t1">>}

UrlLists == {<<>>, <<"u1">>, <<"u2">>, <<"u1", "u2">>, <<"u2", "u2">>}

\* mutant of ValidateQueries: a shorter list is accepted too
ValidateQueriesAtMost(result) == Len(result) <= max_queries_per_question

\* validate_queries
ValidateQueries(result) == Len(result) = max_queries_per_question

\* validate_questions
ValidateQuestions(result) == Len(result) = max_questions_per_url

StartsWith(result, prefix) ==
    Len(result) >= Len(prefix) /\ SubSeq(result, 1, Len(prefix)) = prefix

\* validate_summary
ValidateSummary(result) == ~StartsWith(result, <<JsonFence>>) /\ Len(result) > 0

\* validate_answer
ValidateAnswer(result) == ~StartsWith(result, <<JsonFence>>) /\ Len(result) > 0

\* lst[:n]
Take(lst, n) == SubSeq(lst, 1, Min(n, Len(lst)))

Range(lst) == {lst[i] : i \in 1..Len(lst)}

\* list(set(urls)): the distinct elements, in an order the set decides
DedupOrders(lst) ==
    {o \in UNION {[1..n -> Range(lst)] : n \in {Cardinality(Range(lst))}} :
        Range(o) = Range(lst)}

\* search_google(query), by what the backend does: the result is
\* [raised |-> an exception leaves search_google, links |-> the list returned]
SearchKinds == {"no_key", "no_organic", "bad_result", "backend_raises", "ok"}

SearchGoogle(kind, links) ==
    IF kind = "no_key" THEN [raised |-> FALSE, links |-> <<>>]
    ELSE IF kind = "backend_raises" THEN [raised |-> TRUE, links |-> <<>>]
    ELSE IF kind = "no_organic" THEN [raised |-> FALSE, links |-> <<>>]
    ELSE IF kind = "bad_result" THEN [raised |-> FALSE, links |-> <<>>]
    ELSE [raised |-> FALSE, links |-> links]

\* the constructor argument max_urls_per_question (default 20), taken as 1
\* so that the two URLs of Urls exceed it
max_urls_per_question == 1

\* the ModelRetry message of validate_queries
QueriesRetry(result) ==
    [generated |-> Len(result), what |-> "queries",
     needed |-> max_queries_per_question]

\* the ModelRetry message of validate_questions
QuestionsRetry(result) ==
    [generated |-> Len(result), what |-> "questions",
     needed |-> max_questions_per_url]

NoRetry == [generated |-> 0, what |-> "", needed |-> 0]

\* the ModelRetry message of validate_answer
AnswerRetry(result) ==
    [generated |-> 0, needed |-> 0,
     what |-> IF StartsWith(result, <<JsonFence>>)
              THEN "Invalid answer, do not include tool calls in your response"
              ELSE "No answer provided, try again"]

\* the ModelRetry message of validate_summary
SummaryRetry(result) ==
    [generated |-> 0, needed |-> 0,
     what |-> IF StartsWith(result, <<JsonFence>>)
              THEN "Invalid summary, do not include tool calls in your response"
              ELSE "Invalid summary, try again"]

NoValidation ==
    [validator |-> "", n |-> 0, accepted |-> FALSE, feedback |-> NoRetry,
     result |-> <<>>]

\* a validator call and its verdict
Verdict(validator, result, accepted, feedback) ==
    [validator |-> validator, n |-> Len(result), accepted |-> accepted,
     feedback |-> feedback, result |-> result]

\* mutant of JobOutcome: the except branch records the error, not the status
JobOutcomeNoStatus(job, outcome, value) ==
    IF outcome = "returned"
    THEN [job EXCEPT !.result = value, !.status = "completed"]
    ELSE [job EXCEPT !.error = value]

\* mutant of FoldResult: a final answer once written is kept
FoldResultKeepFirst(current, out) == IF current = <<>> THEN out ELSE current

\* research(), line 220: final_answer = result.data
FoldResult(current, out) == out

\* mutant of JobOutcome: the exception is swallowed and the job completes
JobOutcomeSwallow(job, outcome, value) ==
    IF outcome = "returned"
    THEN [job EXCEPT !.result = value, !.status = "completed"]
    ELSE [job EXCEPT !.status = "completed"]

\* process_research_job, lines 57-63: research() returned value, or raised
\* an exception whose str() is value
JobOutcome(job, outcome, value) ==
    IF outcome = "returned"
    THEN [job EXCEPT !.result = value, !.status = "completed"]
    ELSE [job EXCEPT !.status = "failed", !.error = value]

Job == [status |-> job_status, result |-> job_result, error |-> job_error]

\* the try block of process_research_job resumes when research() ends
JobFollows ==
    LET job == IF rpc' = "done" THEN JobOutcome(Job, "returned", final_answer')
               ELSE IF rpc' = "failed" THEN JobOutcome(Job, "raised", <<error'>>)
               ELSE Job
    IN  /\ job_status' = job.status
        /\ job_result' = job.result
        /\ job_error' = job.error

\* ResearchAgent() and the job that add_job put in the queue
ResearchInit ==
    /\ rpc = "pending"
    /\ queries = <<>>
    /\ qi = 0
    /\ urls = <<>>
    /\ questions = <<>>
    /\ ui = 0
    /\ qj = 0
    /\ answerKeys = <<>>
    /\ answers = [u \in Urls |-> <<>>]
    /\ final_answer = <<>>
    /\ error = "none"
    /\ foldLog = <<>>
    /\ navOk = {}
    /\ askLog = <<>>
    /\ askBefore = [u \in Urls |-> <<>>]
    /\ open_sessions = 0
    /\ validated = NoValidation
    /\ job_status = "pending"
    /\ job_result = None
    /\ job_error = None

Fail(call) ==
    /\ rpc' = "failed"
    /\ error' = call

\* process_research_job, lines 52-58: the task starts and calls research(),
\* which runs to its first await
process_research_job ==
    /\ rpc = "pending"
    /\ rpc' = "query_agent"
    /\ job_status' = "running"
    /\ UNCHANGED <<job_result, job_error>>
    /\ UNCHANGED <<queries, qi, urls, questions, ui, qj, answerKeys, answers,
                   final_answer, error, foldLog, navOk, askLog, askBefore,
                   open_sessions, validated>>
    /\ UNCHANGED <<bvars, jvars, svars>>

\* validate_queries raises ModelRetry on a result of the query agent
RejectQueries(result) ==
    /\ rpc = "query_agent"
    /\ ~ValidateQueries(result)
    /\ validated' = Verdict("validate_queries", result, FALSE, QueriesRetry(result))
    /\ UNCHANGED <<rpc, queries, qi, urls, questions, ui, qj, answerKeys, answers,
                   final_answer, error, foldLog, navOk, askLog, askBefore,
                   open_sessions, job_status, job_result, job_error>>
    /\ UNCHANGED <<bvars, jvars, svars>>

\* validate_questions raises ModelRetry on a result of the research agent
RejectQuestions(result) ==
    /\ rpc = "research_agent"
    /\ ~ValidateQuestions(result)
    /\ validated' = Verdict("validate_questions", result, FALSE,
                             QuestionsRetry(result))
    /\ UNCHANGED <<rpc, queries, qi, urls, questions, ui, qj, answerKeys, answers,
                   final_answer, error, foldLog, navOk, askLog, askBefore,
                   open_sessions, job_status, job_result, job_error>>
    /\ UNCHANGED <<bvars, jvars, svars>>

\* research(), lines 143-153: await query_agent.run
GenerateQueries(ok, result) ==
    /\ rpc = "query_agent"
    /\ IF ok
       THEN /\ ValidateQueries(result)
            /\ validated' = Verdict("validate_queries", result, TRUE, NoRetry)
            /\ queries' = result
            /\ qi' = 1
            /\ rpc' = "search_google"
            /\ UNCHANGED error
       ELSE /\ Fail("query_agent")
            /\ UNCHANGED <<queries, qi, validated>>
    /\ UNCHANGED <<urls, questions, ui, qj, answerKeys, answers, final_answer,
                   foldLog, navOk, askLog, askBefore, open_sessions>>
    /\ JobFollows
    /\ UNCHANGED <<bvars, jvars, svars>>

\* research(), lines 157-166: await search_google(query), urls.extend and,
\* after the last query, urls = list(set(urls))
SearchQuery(kind, links, order) ==
    /\ rpc = "search_google"
    /\ LET r == SearchGoogle(kind, links)
           extended == urls \o r.links
           more == qi < Len(Take(queries, max_queries_per_question))
       IN  IF r.raised
           THEN /\ Fail("search_google")
                /\ UNCHANGED <<urls, qi>>
           ELSE /\ qi' = qi + 1
                /\ UNCHANGED error
                /\ IF more
                   THEN /\ urls' = extended
                        /\ rpc' = "search_google"
                   ELSE /\ order \in DedupOrders(extended)
                        /\ urls' = order
                        /\ rpc' = "research_agent"
    /\ UNCHANGED <<queries, questions, ui, qj, answerKeys, answers, final_answer,
                   foldLog, navOk, askLog, askBefore, open_sessions, validated>>
    /\ JobFollows
    /\ UNCHANGED <<bvars, jvars, svars>>

\* the URL loop moves to position i, the dict being ans: answers[url] = []
\* or, past the last URL, final_answer = "" and the loop over answers.keys()
EnterUrl(i, ans) ==
    /\ ui' = i
    /\ qj' = 1
    /\ IF i <= Len(urls)
       THEN /\ answerKeys' = IF urls[i] \in Range(answerKeys) THEN answerKeys
                             ELSE Append(answerKeys, urls[i])
            /\ answers' = [ans EXCEPT ![urls[i]] = <<>>]
            /\ rpc' = "ask_question"
       ELSE /\ rpc' = IF answerKeys = <<>> THEN "done" ELSE "summarize_agent"
            /\ answers' = ans
            /\ UNCHANGED answerKeys

\* research(), lines 170-186: await research_agent.run
GenerateQuestions(ok, result) ==
    /\ rpc = "research_agent"
    /\ IF ok
       THEN /\ ValidateQuestions(result)
            /\ validated' = Verdict("validate_questions", result, TRUE, NoRetry)
            /\ questions' = result
            /\ EnterUrl(1, answers)
            /\ UNCHANGED error
       ELSE /\ Fail("research_agent")
            /\ UNCHANGED <<questions, ui, qj, answerKeys, answers, validated>>
    /\ UNCHANGED <<queries, qi, urls, final_answer, foldLog, navOk, askLog,
                   askBefore, open_sessions>>
    /\ JobFollows
    /\ UNCHANGED <<bvars, jvars, svars>>

AskOutcomes == {"navigate_fails", "agent_raises", "answer"}

\* the inner loop after an answer: the next question, or the next URL
NextQuestion(i, j, n) == IF j < n THEN [ui |-> i, qj |-> j + 1] ELSE [ui |-> i + 1, qj |-> 1]

\* mutant of BreakUrl: the except branch goes on with the next question
BreakUrlContinue(i, j, n) ==
    IF j < n THEN [ui |-> i, qj |-> j + 1] ELSE [ui |-> i + 1, qj |-> 1]

\* the except branch, line 198: break leaves the inner loop for the next URL
BreakUrl(i, j, n) == [ui |-> i + 1, qj |-> 1]

\* BrowserAgent.ask_question: the sessions it leaves open.  browser.close()
\* is reached only when navigate and agent.run both returned.
LeftOpen(outcome) == IF outcome = "answer" THEN 0 ELSE 1

\* research(), lines 187-198 with BrowserAgent.ask_question: one sub-question
\* on urls[ui].  ask_question raises when navigate returns False or when
\* agent.run raises; else it returns text that validate_answer accepted.
AskQuestion(outcome, answer) ==
    /\ rpc = "ask_question"
    /\ LET url == urls[ui]
           n == Len(Take(questions, max_questions_per_url))
           ans == IF outcome = "answer"
                  THEN [answers EXCEPT ![url] = Append(@, answer)]
                  ELSE answers
           nxt == IF outcome = "answer" THEN NextQuestion(ui, qj, n)
                  ELSE BreakUrl(ui, qj, n)
       IN  /\ outcome = "answer" => ValidateAnswer(answer)
           /\ validated' = IF outcome = "answer"
                            THEN Verdict("validate_answer", answer, TRUE, NoRetry)
                            ELSE validated
           /\ navOk' = IF outcome = "navigate_fails" THEN navOk ELSE navOk \cup {url}
           /\ open_sessions' = open_sessions + LeftOpen(outcome)
           /\ askLog' = Append(askLog, [i |-> ui, url |-> url, j |-> qj,
                                        outcome |-> outcome])
           /\ askBefore' = answers
           /\ IF nxt.ui = ui
              THEN /\ answers' = ans
                   /\ qj' = nxt.qj
                   /\ UNCHANGED <<rpc, ui, answerKeys>>
              ELSE EnterUrl(nxt.ui, ans)
    /\ UNCHANGED <<queries, qi, urls, questions, final_answer, error, foldLog>>
    /\ JobFollows
    /\ UNCHANGED <<bvars, jvars, svars>>

\* validate_answer raises ModelRetry on a result of the browser agent
RejectAnswer(result) ==
    /\ rpc = "ask_question"
    /\ ~ValidateAnswer(result)
    /\ validated' = Verdict("validate_answer", result, FALSE, AnswerRetry(result))
    /\ UNCHANGED <<rpc, queries, qi, urls, questions, ui, qj, answerKeys, answers,
                   final_answer, error, foldLog, navOk, askLog, askBefore,
                   open_sessions, job_status, job_result, job_error>>
    /\ UNCHANGED <<bvars, jvars, svars>>

\* validate_summary raises ModelRetry on a result of the summarize agent
RejectSummary(result) ==
    /\ rpc = "summarize_agent"
    /\ ~ValidateSummary(result)
    /\ validated' = Verdict("validate_summary", result, FALSE, SummaryRetry(result))
    /\ UNCHANGED <<rpc, queries, qi, urls, questions, ui, qj, answerKeys, answers,
                   final_answer, error, foldLog, navOk, askLog, askBefore,
                   open_sessions, job_status, job_result, job_error>>
    /\ UNCHANGED <<bvars, jvars, svars>>

\* research(), lines 204-225: await summarize_agent.run for the next key of
\* answers, final_answer = result.data and, after the last key, the return
Summarize(ok, result) ==
    /\ rpc = "summarize_agent"
    /\ LET done == Len(foldLog) + 1
           url == answerKeys[done]
       IN  IF ok
           THEN /\ ValidateSummary(result)
                /\ validated' = Verdict("validate_summary", result, TRUE, NoRetry)
                /\ final_answer' = FoldResult(final_answer, result)
                /\ foldLog' = Append(foldLog, [url |-> url, used |-> Len(answers[url]),
                                               current |-> final_answer, out |-> result])
                /\ rpc' = IF done < Len(answerKeys) THEN "summarize_agent" ELSE "done"
                /\ UNCHANGED error
           ELSE /\ Fail("summarize_agent")
                /\ UNCHANGED <<final_answer, foldLog, validated>>
    /\ UNCHANGED <<queries, qi, urls, questions, ui, qj, answerKeys, answers, navOk,
                   askLog, askBefore, open_sessions>>
    /\ JobFollows
    /\ UNCHANGED <<bvars, jvars, svars>>

ResearchNext ==
    \/ process_research_job
    \/ \E r \in RawQueryLists : RejectQueries(r)
    \/ \E ok \in BOOLEAN, r \in RawQueryLists : GenerateQueries(ok, r)
    \/ \E k \in SearchKinds, l \in UrlLists, o \in UNION {[1..n -> Urls] : n \in 0..2} :
          SearchQuery(k, l, o)
    \/ \E r \in RawQuestionLists : RejectQuestions(r)
    \/ \E ok \in BOOLEAN, r \in RawQuestionLists : GenerateQuestions(ok, r)
    \/ \E r \in RawTexts : RejectAnswer(r)
    \/ \E o \in AskOutcomes, a \in RawTexts : AskQuestion(o, a)
    \/ \E r \in RawTexts : RejectSummary(r)
    \/ \E ok \in BOOLEAN, r \in RawTexts : Summarize(ok, r)

-----------------------------------------------------------------------------
(* The job registry of api/research.py with several jobs: create_research_job *)
(* adds a job and starts its task; a task is process_research_job(job_id),    *)
(* its research() call reduced to the answers map it fills and its outcome.   *)

\* the most jobs submitted
MaxJobs == 2

JobIds == 1..MaxJobs

Questions == {"q1", "q2"}

TaskAnswers == {"a1", "a2"}

NoJob == [status |-> "none", question |-> "", result |-> None, error |-> None]

\* a task whose research() has not ended
NoOutcome == [outcome |-> "none", value |-> None]

\* mutant of NewJobId: an id that may be in use already
NewJobIdFixed(registry) == 1

\* str(uuid.uuid4()): an id that no job of the registry has
NewJobId(registry) == CHOOSE id \in JobIds : registry[id] = NoJob

\* ResearchJobQueue.__init__
JobInit ==
    /\ jobs = [id \in JobIds |-> NoJob]
    /\ tasks = <<>>
    /\ writers = [id \in JobIds |-> {}]

\* create_research_job: add_job, then asyncio.create_task
create_research_job(question) ==
    /\ Len(tasks) < MaxJobs
    /\ LET job_id == NewJobId(jobs)
       IN  /\ jobs' = [jobs EXCEPT ![job_id] =
                          [status |-> "pending", question |-> question,
                           result |-> None, error |-> None]]
           /\ tasks' = Append(tasks, [job_id |-> job_id, pc |-> "created",
                                      answers |-> <<>>, out |-> NoOutcome])
    /\ UNCHANGED writers
    /\ UNCHANGED <<bvars, rvars, svars>>

\* process_research_job, lines 52-58: task i starts; the job it looks up
\* becomes RUNNING and research() is called
run_task(i) ==
    /\ tasks[i].pc = "created"
    /\ LET job_id == tasks[i].job_id
       IN  IF jobs[job_id] = NoJob
           THEN /\ tasks' = [tasks EXCEPT ![i].pc = "ended"]
                /\ UNCHANGED <<jobs, writers>>
           ELSE /\ jobs' = [jobs EXCEPT ![job_id].status = "running"]
                /\ writers' = [writers EXCEPT ![job_id] = @ \cup {i}]
                /\ tasks' = [tasks EXCEPT ![i].pc = "research"]
    /\ UNCHANGED <<bvars, rvars, svars>>

\* research() of task i puts an answer in its own answers map
task_answers(i, a) ==
    /\ tasks[i].pc = "research"
    /\ tasks[i].answers = <<>>
    /\ tasks' = [tasks EXCEPT ![i].answers = Append(@, a)]
    /\ UNCHANGED <<jobs, writers>>
    /\ UNCHANGED <<bvars, rvars, svars>>

\* process_research_job, lines 58-63: research() of task i returns value or
\* raises an exception whose message is value
task_ends(i, outcome, value) ==
    /\ tasks[i].pc = "research"
    /\ LET job_id == tasks[i].job_id
           job == JobOutcome([status |-> jobs[job_id].status,
                              result |-> jobs[job_id].result,
                              error |-> jobs[job_id].error], outcome, value)
       IN  /\ jobs' = [jobs EXCEPT ![job_id].status = job.status,
                                   ![job_id].result = job.result,
                                   ![job_id].error = job.error]
           /\ writers' = [writers EXCEPT ![job_id] = @ \cup {i}]
           /\ tasks' = [tasks EXCEPT ![i].pc = "ended",
                                     ![i].out = [outcome |-> outcome, value |-> value]]
    /\ UNCHANGED <<bvars, rvars, svars>>

JobNext ==
    \/ \E q \in Questions : create_research_job(q)
    \/ \E i \in 1..Len(tasks) : run_task(i)
    \/ \E i \in 1..Len(tasks), a \in TaskAnswers : task_answers(i, a)
    \/ \E i \in 1..Len(tasks), o \in {"returned", "raised"}, v \in {<<>>, <<"t1">>} :
          task_ends(i, o, v)

-----------------------------------------------------------------------------
(* Browser.find_text step by step: the call up to its loop, then one         *)
(* iteration of the loop per step.  scan.pc is "idle" between calls and       *)
(* "loop" inside the while True loop; scan.tick changes with each iteration.  *)

NoScan == [pc |-> "idle", needle |-> <<>>, ret |-> <<>>, tick |-> FALSE]

ScanInit == scan = NoScan

\* where an iteration's engine fault is: in find_text's own
\* get_viewport_content, or in the page_down it calls (before or after the scroll)
IterationFaults == {"none", "content", "before", "after"}

\* find_text, lines 204-218: the current viewport, then window.scrollTo(0, 0)
find_text_enter(needle, f) ==
    /\ scan.pc = "idle"
    /\ page = "open"
    /\ navigated
    /\ calls < MaxCalls
    /\ calls' = calls + 1
    /\ LET content == ViewportContent(doc, scrollY)
       IN  IF f = "before"
           THEN /\ scan' = [NoScan EXCEPT !.needle = needle, !.ret = None]
                /\ UNCHANGED scrollY
           ELSE IF Contains(content, needle)
           THEN /\ scan' = [NoScan EXCEPT !.needle = needle, !.ret = content]
                /\ UNCHANGED scrollY
           ELSE /\ scrollY' = 0
                /\ scan' = IF f = "after"
                           THEN [NoScan EXCEPT !.needle = needle, !.ret = None]
                           ELSE [pc |-> "loop", needle |-> needle, ret |-> <<>>,
                                 tick |-> FALSE]
    /\ UNCHANGED <<page, doc, cursorVars, domain_whitelist, navigated, last,
                   roundTrip, nextRun>>
    /\ UNCHANGED <<rvars, jvars>>

\* find_text, lines 220-234: one iteration of the while True loop
find_text_iteration(g) ==
    /\ scan.pc = "loop"
    /\ LET content == ViewportContent(doc, scrollY)
           down == PageDown(doc, scrollY, IF g = "content" THEN "none" ELSE g)
           return(ret) == [scan EXCEPT !.pc = "idle", !.ret = ret,
                                       !.tick = ~scan.tick]
       IN  IF g = "content"
           THEN /\ scan' = return(None)
                /\ UNCHANGED scrollY
           ELSE IF Contains(content, scan.needle)
           THEN /\ scan' = return(content)
                /\ UNCHANGED scrollY
           ELSE IF down.ret = END_OF_PAGE
           THEN /\ scan' = return(None)
                /\ UNCHANGED scrollY
           ELSE /\ scan' = [scan EXCEPT !.tick = ~scan.tick]
                /\ scrollY' = down.y
    /\ UNCHANGED <<page, doc, cursorVars, domain_whitelist, navigated, calls, last,
                   roundTrip, nextRun>>
    /\ UNCHANGED <<rvars, jvars>>

ScanNext ==
    \/ start
    \/ \E u \in PageUrls, d \in Docs, ok \in BOOLEAN : navigate(u, d, ok)
    \/ \E n \in Needles, f \in Faults : find_text_enter(n, f)
    \/ \E g \in IterationFaults : find_text_iteration(g)

-----------------------------------------------------------------------------
(* Specifications: one Browser session, one research() run, the job         *)
(* registry, and find_text step by step under the event loop's scheduling    *)

Init == BrowserInit /\ ResearchInit /\ JobInit /\ ScanInit

Next == BrowserNext

Spec == Init /\ [][Next]_vars

ResearchSpec == Init /\ [][ResearchNext]_vars

JobSpec == Init /\ [][JobNext]_vars

\* the event loop resumes the coroutine after every await
ScanSpec == Init /\ [][ScanNext]_vars /\ WF_vars(ScanNext)

-----------------------------------------------------------------------------
(* Properties of the Browser session (specification Spec) *)

AtBottom(d, y) == y + ViewportHeight >= ScrollHeight(d)

\* C1: on an open session, a page_down call that the engine completes
\* returns "END OF PAGE REACHED" exactly when scrollOffset + viewportHeight
\* >= documentHeight, and a page_up call that the engine completes returns
\* "TOP OF PAGE REACHED" exactly when scrollOffset = 0 (a call in which the
\* engine raises is reported by the empty string, never by a sentinel); a
\* call that returns a sentinel leaves the offset unchanged.
C1_SentinelExactlyAtBoundary ==
    /\ (page = "open" /\ last.op = "page_down") =>
          /\ ~last.raised => ((last.ret = END_OF_PAGE) <=> AtBottom(doc, last.preY))
          /\ last.raised => last.ret = <<>>
          /\ (last.ret = END_OF_PAGE) => scrollY = last.preY
    /\ (page = "open" /\ last.op = "page_up") =>
          /\ ~last.raised => ((last.ret = TOP_OF_PAGE) <=> (last.preY = 0))
          /\ last.raised => last.ret = <<>>
          /\ (last.ret = TOP_OF_PAGE) => scrollY = last.preY

\* a page_down that returned the end sentinel after the page was scrolled
C1_Witness ==
    /\ page = "open"
    /\ last.op = "page_down"
    /\ ~last.raised
    /\ last.ret = END_OF_PAGE
    /\ last.preY > 0

\* C2: a page_down that does not return the sentinel moves the offset
\* forward by exactly one viewport height (so successive windows are disjoint).
C2_PageDownMovesOneViewport ==
    (page = "open" /\ last.op = "page_down" /\ ~last.raised /\ last.ret # END_OF_PAGE)
        => scrollY = last.preY + ViewportHeight

\* C3: page_down then page_up from an interior offset
\* (0 < offset < documentHeight - viewportHeight) returns to that offset.
C3_RoundTrip ==
    (/\ roundTrip.state = "back"
     /\ 0 < roundTrip.y0
     /\ roundTrip.y0 < ScrollHeight(doc) - ViewportHeight)
        => scrollY = roundTrip.y0

\* the offsets page_down visits from the top: 0, V, 2V, ... clamped to the range
PageOffsets(d) ==
    {Min(k * ViewportHeight, MaxScroll(d)) : k \in 0..(ScrollHeight(d) \div ViewportHeight)}

\* the first window from the top that contains the needle, or None
FirstWindowFromTop(d, needle) ==
    LET hits == {y \in PageOffsets(d) : Contains(ViewportContent(d, y), needle)}
    IN  IF hits = {} THEN None
        ELSE ViewportContent(d, CHOOSE y \in hits : \A z \in hits : y <= z)

\* C4 as stated: the result of find_text is the one a call at offset 0 gives,
\* whatever the scroll offset at the call.
C4_FindTextIndependentOfOffset ==
    (page = "open" /\ last.op = "find_text" /\ ~last.raised)
        => last.ret = FirstWindowFromTop(doc, last.needle)

\* C4 amended: find_text returns the current window when it contains the
\* needle; otherwise its result is the first window from the top of the
\* document that contains the needle, or null, whatever the scroll offset
\* and the search cursor at the call.
C4_FindTextCurrentWindowElseFromTop ==
    (page = "open" /\ last.op = "find_text" /\ ~last.raised)
        => last.ret = IF Contains(ViewportContent(doc, last.preY), last.needle)
                      THEN ViewportContent(doc, last.preY)
                      ELSE FirstWindowFromTop(doc, last.needle)

\* a find_text called below the top, needle not in view, that found a window
C4_Witness ==
    /\ page = "open"
    /\ last.op = "find_text"
    /\ ~last.raised
    /\ last.preY > 0
    /\ ~Contains(ViewportContent(doc, last.preY), last.needle)
    /\ last.ret # None
    /\ current_viewport_content # <<>>

\* the text of the whole document
RECURSIVE AllText(_, _)
AllText(d, i) ==
    IF i > Len(d) THEN <<>>
    ELSE IF i = Len(d) THEN d[i].text
    ELSE d[i].text \o <<" ">> \o AllText(d, i + 1)

\* the number of non-overlapping matches of sub in s at or after start
RECURSIVE CountMatches(_, _, _)
CountMatches(s, sub, from) ==
    LET at == Find(s, sub, from)
    IN  IF at < 0 THEN 0 ELSE 1 + CountMatches(s, sub, at + Len(sub))

\* C5: on a fresh session, successive find_text_next(needle) calls return
\* one window per match of the needle in the document, K in all, and the
\* call after them returns "END OF PAGE REACHED".
C5_OneWindowPerMatchThenEnd ==
    (nextRun.pure /\ nextRun.needle # <<>>)
        => LET K == CountMatches(Lower(AllText(doc, 1)), Lower(nextRun.needle), 0)
           IN  /\ nextRun.windows <= K
               /\ nextRun.ended => nextRun.windows = K

\* C6: any two positions in the seen-positions set differ by at least 50.
C6_SeenPositionsApart ==
    \A p \in found_positions : \A q \in found_positions :
        p # q => Abs(p - q) >= DupTolerance

\* find_text_next skipped a match as a duplicate, with two positions recorded
C6_Witness ==
    /\ last.op = "find_text_next"
    /\ last.skipped
    /\ Cardinality(found_positions) >= 2

\* C16: an engine fault raised inside a Browser operation is caught there
\* and the operation returns its sentinel, empty-string or null result: ""
\* for page_down, page_up and get_viewport_content, null for find_text and
\* find_text_next, False for navigate; none propagates the fault.
C16_NoFaultPropagates ==
    (page = "open" /\ last.raised) =>
        last.ret = IF last.op \in {"page_down", "page_up", "get_viewport_content"}
                   THEN <<>>
                   ELSE IF last.op = "navigate" THEN False
                   ELSE None

\* C17: with a non-empty allow-list, navigate succeeds only for a URL whose
\* host is a member of the list; for any other host it returns False without
\* raising and without calling page.goto, and the page, the document, the
\* scroll offset and the search cursor stay as they were.
C17_AllowListExactHost ==
    [][(page = "open" /\ domain_whitelist # {} /\ ~navigated /\ navigated')
          => /\ last'.op = "navigate"
             /\ last'.ret = True => last'.url.host \in domain_whitelist
             /\ last'.url.host \notin domain_whitelist =>
                   /\ last'.ret = False
                   /\ ~last'.raised
                   /\ ~last'.goto
                   /\ UNCHANGED <<page, doc, scrollY, cursorVars>>]_vars

\* navigate to a subdomain of the one listed domain was refused
C17_Witness ==
    /\ page = "open"
    /\ domain_whitelist = {ExampleCom}
    /\ last.op = "navigate"
    /\ last.url.host = EvilExampleCom
    /\ last.ret = False
    /\ ~last.goto

\* the tool calls, which count in calls, and navigate
IsToolCall == calls' # calls

\* C20: get_viewport_content changes neither the scroll offset nor the
\* search cursor; with no open session (page is None) every operation leaves
\* the state as it is and returns its empty result: "" for
\* get_viewport_content, page_down and page_up, null for find_text and
\* find_text_next, False for navigate.
C20_ReadOnlyAndNoSessionFrame ==
    [][/\ (IsToolCall /\ last'.op = "get_viewport_content")
            => UNCHANGED <<page, doc, scrollY, cursorVars>>
       /\ (page = "None" /\ (IsToolCall \/ navigated' # navigated))
            => /\ UNCHANGED <<page, doc, scrollY, cursorVars>>
               /\ last'.op \in {"get_viewport_content", "page_down", "page_up"}
                     => last'.ret = <<>>
               /\ last'.op \in {"find_text", "find_text_next"} => last'.ret = None
               /\ last'.op = "navigate" => last'.ret = False
               /\ ~last'.raised]_vars

\* find_text_next was called, after another call, on a Browser never started
C20_Witness ==
    /\ page = "None"
    /\ last.op = "find_text_next"
    /\ last.ret = None
    /\ calls >= 2

CursorIsReset ==
    /\ current_viewport_content = <<>>
    /\ last_search_position = 0
    /\ last_search_index = 0
    /\ found_positions = {}

\* C22: the cursor is in its reset state when the session opens and after
\* every find_text_next call that returned "END OF PAGE REACHED" or that a
\* fault made return null; a find_text_next call that begins with the cursor
\* reset starts a fresh search: the window it returns is its own snapshot
\* and the occurrence it reports is the first and only one recorded.
C22_CursorResetAtEndAndOnFault ==
    /\ last.op = "start" => CursorIsReset
    /\ (page = "open" /\ last.op = "find_text_next"
           /\ (last.ret = END_OF_PAGE \/ (last.raised /\ last.ret = None)))
          => CursorIsReset
    /\ (page = "open" /\ last.op = "find_text_next" /\ last.fresh
           /\ ~last.raised /\ last.ret # END_OF_PAGE)
          => /\ current_viewport_content = last.ret
             /\ last_search_index = 1
             /\ Cardinality(found_positions) = 1

\* after a reset, a fresh find_text_next reported an occurrence once more
C22_Witness ==
    /\ page = "open"
    /\ last.op = "find_text_next"
    /\ last.fresh
    /\ last.again
    /\ last.ret \notin {END_OF_PAGE, None}

\* C28: a window that find_text_next returns is the text visible at the
\* session's scroll offset when the call returns.
C28_ReturnedWindowIsCurrent ==
    (page = "open" /\ last.op = "find_text_next" /\ ~last.raised
       /\ last.ret # END_OF_PAGE)
        => last.ret = ViewportContent(doc, scrollY)

-----------------------------------------------------------------------------
(* Properties of research() (specification ResearchSpec) *)

Folded == {foldLog[i].url : i \in 1..Len(foldLog)}

\* C8: the summarizing invocation runs exactly once for each URL with at
\* least one answer and never for a URL with none, and the value returned is
\* the last such fold's output.
C8_FoldOnlyUrlsWithAnswers ==
    /\ \A i \in 1..Len(foldLog) : foldLog[i].used >= 1
    /\ rpc = "done" =>
          /\ Folded = {u \in Range(urls) : Len(answers[u]) >= 1}
          /\ Cardinality(Folded) = Len(foldLog)
          /\ final_answer = IF foldLog = <<>> THEN <<>> ELSE foldLog[Len(foldLog)].out

\* C9: a run in which every discovered URL fails navigation, once it
\* completes, returns the empty final answer.
C9_AllNavigationsFailGivesEmptyAnswer ==
    (navOk = {} /\ rpc = "done") => final_answer = <<>>

\* C10: no failure of the search backend makes research() fail.
C10_SearchFailureNeverAborts == ~(rpc = "failed" /\ error = "search_google")

LastAsk == askLog[Len(askLog)]

\* the ask_question calls made on url
AsksOf(url) == {k \in 1..Len(askLog) : askLog[k].url = url}

\* C11: when ask_question raises for a sub-question of a URL, research()
\* asks no further sub-question of that URL and never asks that one again,
\* keeps the answers the URL already has and every other URL's answers, and
\* goes on with the first sub-question of the next URL.
C11_ExceptionEndsOnlyThatUrl ==
    \A k \in 1..Len(askLog) :
        askLog[k].outcome # "answer" =>
            /\ \A m \in (k + 1)..Len(askLog) : askLog[m].url # askLog[k].url
            /\ k < Len(askLog) =>
                  /\ askLog[k + 1].i = askLog[k].i + 1
                  /\ askLog[k + 1].j = 1
            /\ k = Len(askLog) =>
                  /\ answers = askBefore
                  /\ IF askLog[k].i < Len(urls)
                     THEN rpc = "ask_question" /\ ui = askLog[k].i + 1 /\ qj = 1
                     ELSE rpc \in {"summarize_agent", "done", "failed"}

\* the second sub-question of the first of two URLs raised, after an answer
C11_Witness ==
    /\ askLog # <<>>
    /\ LastAsk.outcome = "agent_raises"
    /\ LastAsk.i = 1
    /\ LastAsk.j = 2
    /\ Len(answers[LastAsk.url]) = 1
    /\ Len(urls) = 2
    /\ rpc = "ask_question"

\* C12: a URL to which a navigation failed ends the interrogation phase
\* with no answers at all.
C12_NavigationFailureLeavesNoAnswers ==
    \A k \in 1..Len(askLog) :
        askLog[k].outcome = "navigate_fails" => answers[askLog[k].url] = <<>>

\* C13: when research() has returned or failed, no Browser session that it
\* opened is still open.
C13_NoSessionLeftOpen == rpc \in {"done", "failed"} => open_sessions = 0

\* C14: research() fails only in a mandatory phase, query generation or
\* sub-question generation.
C14_FailsOnlyInMandatoryPhase ==
    rpc = "failed" => error \in {"query_agent", "research_agent"}

\* C15: when query_agent.run or research_agent.run raises, research() raises
\* with it, no sub-question is asked and no fold is run (and after a failed
\* query generation no search either), and the job is FAILED with error the
\* exception's message and result unset.
C15_MandatoryPhaseFailureFailsJob ==
    (rpc = "failed" /\ error \in {"query_agent", "research_agent"}) =>
        /\ askLog = <<>>
        /\ foldLog = <<>>
        /\ open_sessions = 0
        /\ final_answer = <<>>
        /\ error = "query_agent" => (qi = 0 /\ urls = <<>>)
        /\ job_status = "failed"
        /\ job_error = <<error>>
        /\ job_result = None

\* sub-question generation failed after the searches found two URLs
C15_Witness ==
    /\ rpc = "failed"
    /\ error = "research_agent"
    /\ Len(urls) = 2
    /\ job_status = "failed"

\* C18: one run opens at most max_urls_per_question URLs and asks at most
\* max_questions_per_url sub-questions of each.
C18_InterrogationBounded ==
    /\ Cardinality({askLog[k].url : k \in 1..Len(askLog)}) <= max_urls_per_question
    /\ \A u \in Urls : Cardinality(AsksOf(u)) <= max_questions_per_url

\* C19: validate_queries accepts a result exactly when its length is
\* max_queries_per_question and validate_questions exactly when its length is
\* max_questions_per_url; a rejection's message states the required count
\* (and the count generated).
C19_ListValidatorsExactCardinality ==
    /\ validated.validator = "validate_queries" =>
          /\ validated.accepted <=> validated.n = max_queries_per_question
          /\ ~validated.accepted =>
                /\ validated.feedback.needed = max_queries_per_question
                /\ validated.feedback.generated = validated.n
    /\ validated.validator = "validate_questions" =>
          /\ validated.accepted <=> validated.n = max_questions_per_url
          /\ ~validated.accepted =>
                /\ validated.feedback.needed = max_questions_per_url
                /\ validated.feedback.generated = validated.n
    /\ rpc \notin {"pending", "query_agent", "failed"} =>
          Len(queries) = max_queries_per_question
    /\ rpc \in {"ask_question", "summarize_agent", "done"} =>
          Len(questions) = max_questions_per_url

\* a list of four sub-questions was rejected, after three queries were accepted
C19_Witness ==
    /\ validated.validator = "validate_questions"
    /\ ~validated.accepted
    /\ validated.n = 4
    /\ Len(queries) = 3

\* the place of a phase of research() in the order of the phases
PhaseRank(p) ==
    CASE p = "pending" -> 0
      [] p = "query_agent" -> 1
      [] p = "search_google" -> 2
      [] p = "research_agent" -> 3
      [] p = "ask_question" -> 4
      [] p = "summarize_agent" -> 5
      [] OTHER -> 6

\* each fold got the previous fold's output, the first the empty answer, and
\* the value returned is the last fold's output
LeftFold ==
    /\ \A i \in 1..Len(foldLog) :
          foldLog[i].current = IF i = 1 THEN <<>> ELSE foldLog[i - 1].out
    /\ rpc = "done" =>
          final_answer = IF foldLog = <<>> THEN <<>> ELSE foldLog[Len(foldLog)].out

\* C23: research() never goes back to an earlier phase (query generation,
\* searches, sub-question generation, interrogations, folds): no search after
\* sub-question generation began, no interrogation after folding began; and
\* the folds are a left fold whose last output is the value returned.
C23_PhasesInOrderAndLeftFold ==
    [][/\ PhaseRank(rpc') >= PhaseRank(rpc)
       /\ PhaseRank(rpc) >= 3 => (urls' = urls /\ qi' = qi /\ queries' = queries)
       /\ PhaseRank(rpc) >= 4 => questions' = questions
       /\ PhaseRank(rpc) >= 5 => (askLog' = askLog /\ answers' = answers)
       /\ PhaseRank(rpc) >= 6 => foldLog' = foldLog
       /\ LeftFold']_vars

\* a run returned after two folds with different outputs
C23_Witness ==
    /\ rpc = "done"
    /\ Len(foldLog) = 2
    /\ foldLog[1].out # foldLog[2].out
    /\ foldLog[2].current = foldLog[1].out
    /\ final_answer = foldLog[2].out

\* C24: at most one Browser session is opened for a URL, however many of
\* its sub-questions are asked (each ask_question call opens one).
C24_OneSessionPerUrl == \A u \in Urls : Cardinality(AsksOf(u)) <= 1

\* the text starts with a code fence, whatever its language tag
StartsWithCodeFence(result) ==
    Len(result) > 0 /\ result[1] \in {JsonFence, OtherFence}

\* C25: validate_answer and validate_summary accept a result exactly when it
\* is non-empty and does not start with a code-fence marker, and a rejection
\* carries retry feedback.
C25_ProseValidatorsRejectFences ==
    validated.validator \in {"validate_answer", "validate_summary"} =>
        /\ validated.accepted <=>
              (validated.result # <<>> /\ ~StartsWithCodeFence(validated.result))
        /\ ~validated.accepted => validated.feedback.what # ""

JobMoves ==
    {<<"pending", "running">>, <<"running", "completed">>, <<"running", "failed">>}

\* C27: the job's status moves only PENDING -> RUNNING -> COMPLETED or
\* FAILED and never leaves COMPLETED or FAILED; result is set only when the
\* status is COMPLETED and error only when it is FAILED; once research() has
\* returned or raised the status is not RUNNING.
C27_JobStatusLifecycle ==
    [][/\ job_status' # job_status => <<job_status, job_status'>> \in JobMoves
       /\ job_result' # None => job_status' = "completed"
       /\ job_error' # None => job_status' = "failed"
       /\ rpc' = "done" => (job_status' = "completed" /\ job_result' = final_answer')
       /\ rpc' = "failed" => (job_status' = "failed" /\ job_error' # None)
       /\ rpc' \notin {"pending", "done", "failed"} => job_status' = "running"]_vars

\* the job failed in the folding phase, after interrogation
C27_Witness ==
    /\ job_status = "failed"
    /\ job_error = <<"summarize_agent">>
    /\ job_result = None
    /\ askLog # <<>>

-----------------------------------------------------------------------------
(* Properties of the job registry (specification JobSpec) *)

\* the tasks started for a job id
TasksOf(id) == {i \in 1..Len(tasks) : tasks[i].job_id = id}

\* C26: under every interleaving of submissions and task steps, the
\* submitted jobs have distinct ids, a job in the registry has exactly one
\* task, its entry is written by that task only, and the entry shows that
\* task's own progress and outcome, never another task's.
C26_OneTaskPerJob ==
    /\ \A i \in 1..Len(tasks) : \A j \in 1..Len(tasks) :
          i # j => tasks[i].job_id # tasks[j].job_id
    /\ \A id \in JobIds :
          /\ jobs[id] # NoJob => Cardinality(TasksOf(id)) = 1
          /\ jobs[id] = NoJob => TasksOf(id) = {}
          /\ writers[id] \subseteq TasksOf(id)
    /\ \A i \in 1..Len(tasks) :
          LET t == tasks[i]
              job == jobs[t.job_id]
          IN  /\ t.pc = "created" => job.status = "pending"
              /\ t.pc = "research" => job.status = "running"
              /\ (t.pc = "ended" /\ t.out # NoOutcome) =>
                    IF t.out.outcome = "returned"
                    THEN job.status = "completed" /\ job.result = t.out.value
                                                  /\ job.error = None
                    ELSE job.status = "failed" /\ job.error = t.out.value
                                               /\ job.result = None

\* two jobs at once: the first failed while the second, with an answer of
\* its own, is still running
C26_Witness ==
    /\ Len(tasks) = 2
    /\ tasks[1].pc = "ended"
    /\ jobs[tasks[1].job_id].status = "failed"
    /\ tasks[2].pc = "research"
    /\ tasks[2].answers # <<>>
    /\ tasks[2].answers # tasks[1].answers
    /\ jobs[tasks[2].job_id].status = "running"

-----------------------------------------------------------------------------
(* Properties of find_text step by step (specification ScanSpec) *)

\* C29: every find_text call that enters its scan loop leaves it: the call
\* returns a window or null.
C29_FindTextLoopEnds == (scan.pc = "loop") ~> (scan.pc = "idle")

====
